---- MODULE Spec2Model ----
(***************************************************************************)
(* Model of the mailbox state machine of mailbox-state-lambda.             *)
(*                                                                         *)
(* Two variants of MailboxStateMachine exist in the repository:            *)
(*   "lambda" : src/lambda/mailbox_state_machine.py                        *)
(*   "root"   : src/mailbox_state_machine.py                               *)
(* Both keep one DynamoDB item under key id = 'open' holding the counter,  *)
(* and publish text messages to an SNS topic.                              *)
(*                                                                         *)
(* The DynamoDB table is modelled as the set of its items (records), the   *)
(* SNS topic as the sequence of the messages it accepted.  The outcome of  *)
(* every boto3 call is an input: "ok", or "ClientError" (the only          *)
(* exception class the code catches).  The 'timestamp' attribute written   *)
(* by the lambda variant is a wall-clock string no code reads; it is kept  *)
(* as the abstract value "ts".                                             *)
(***************************************************************************)
EXTENDS Integers, Sequences, FiniteSets, TLC

VARIABLES
    variant,    \* which MailboxStateMachine class runs: "lambda" or "root"
    mode,       \* "long": one instance handles every event; "fresh": one
                \* instance per event; "conc": two interleaved invocations
    faulty,     \* whether boto3 calls may raise ClientError in this run
    table,      \* the DynamoDB table: the set of its items
    table0,     \* the table as it was at the start of the run
    state,      \* self.state of the (latest) instance
    amc,        \* self.ajar_message_count of the (latest) instance
    log,        \* messages accepted by SNS, in order, each with the
                \* counter stored at the time of the publish call
    hist,       \* the "open" / "closed" events passed to handle_event so
                \* far, in order
    status,     \* long-lived instance: "none", "ready", "raised", or
                \* "finished" after the run's closing reset_db_value()
    last,       \* summary of the last operation performed
    twin,       \* a second run of the same operations with the same store
                \* outcomes, in which every publish call succeeds
    inv         \* the two concurrent invocations (mode "conc")

vars == <<variant, mode, faulty, table, table0, state, amc, log, hist,
          status, last, twin, inv>>

----------------------------------------------------------------------------
(* Bounds of the model. *)

\* events handled in a run without store faults
MaxEvents == 9
\* events handled in a run in which boto3 calls may fail
MaxEventsFaulty == 2
\* largest counter value the table may hold at the start of a run
MaxInit == 2

----------------------------------------------------------------------------
(* Python / boto3 primitives. *)

OK == "ok"
ClientError == "ClientError"
Outcome == {OK, ClientError}

\* dict.get(key, default)
DictGet(d, key, default) == IF key \in DOMAIN d THEN d[key] ELSE default

\* d | {key: v}: the record d with attribute key set to v
DictSet(d, key, v) ==
    [k \in (DOMAIN d) \cup {key} |-> IF k = key THEN v ELSE d[k]]

\* Python's a & b on non-negative a; b may be -1 only when a = 0
RECURSIVE BitAnd(_, _)
BitAnd(a, b) ==
    IF a = 0 \/ b = 0 THEN 0
    ELSE (a % 2) * (b % 2) + 2 * BitAnd(a \div 2, b \div 2)

\* Table.get_item(Key={'id': key}): the response carries 'Item' only when
\* the item exists
get_item(t, key) ==
    IF \E i \in t : i.id = key
    THEN [Item |-> CHOOSE i \in t : i.id = key, ResponseMetadata |-> "meta"]
    ELSE [ResponseMetadata |-> "meta"]

\* the item an update_item call starts from: the stored one, or a new one
\* holding only the key
ItemForUpdate(t, key) ==
    IF \E i \in t : i.id = key THEN CHOOSE i \in t : i.id = key
    ELSE [id |-> key]

\* a faulty increment: SET #val = :zero + :inc, the stored value is ignored
M_IncrementExpression(item) == DictSet(item, "value", 0 + 1)

\* SET #val = if_not_exists(#val, :zero) + :inc   (one atomic update_item)
IncrementExpression(item) == DictSet(item, "value", DictGet(item, "value", 0) + 1)

\* a faulty reset: the expression names the attribute 'val', not 'value'
M_ResetExpression(item) == DictSet(item, "val", 0)

\* SET #val = :zero
ResetExpression(item) == DictSet(item, "value", 0)

\* ..., #ts = :time   (lambda variant only)
TimestampExpression(v, item) ==
    IF v = "lambda" THEN DictSet(item, "timestamp", "ts") ELSE item

\* Table.update_item(Key={'id': 'open'}, ...) with the increment expression
UpdateIncrement(v, t) ==
    {i \in t : i.id # "open"}
        \cup {TimestampExpression(v, IncrementExpression(ItemForUpdate(t, "open")))}

\* Table.update_item(Key={'id': 'open'}, ...) with the reset expression
UpdateReset(v, t) ==
    {i \in t : i.id # "open"}
        \cup {TimestampExpression(v, ResetExpression(ItemForUpdate(t, "open")))}

\* the counter as an observer of the table sees it (0 when there is no item)
StoredCounter(t) ==
    IF \E i \in t : i.id = "open"
    THEN DictGet(CHOOSE i \in t : i.id = "open", "value", 0)
    ELSE 0

HasRecord(t) == \E i \in t : i.id = "open"

----------------------------------------------------------------------------
(* Messages. A message is its fixed text, followed by the formatted number *)
(* when the f-string has one.                                              *)

Lambda_MsgOpen == <<"Mailbox OPEN">>
Lambda_MsgAjar == <<"Mailbox AJAR">>
Lambda_MsgClosed == <<"Mailbox CLOSED">>
Lambda_MsgStillAjar(counter) == <<"Mailbox still AJAR, event count: ", counter>>

Root_MsgOpen == <<"Mailbox is now OPEN">>
Root_MsgAjar == <<"Mailbox is AJAR">>
Root_MsgClosed == <<"Mailbox is now CLOSED">>
Root_MsgStillAjar(n) == <<"Mailbox still AJAR, message count: ", n>>

----------------------------------------------------------------------------
(* The methods of MailboxStateMachine.                                     *)
(*                                                                         *)
(* A context c is what a method can read and change: the table, the        *)
(* instance fields state and ajar_message_count (amc), the SNS log, the    *)
(* exception now propagating (exc) and, as a record of what was done, the  *)
(* boto3 calls made so far with their outcomes (calls).                    *)
(* out gives the outcome of each boto3 call an operation can make:         *)
(*   r0 the read in __init__, w the update_item, r1 the read inside        *)
(*   handle_event, p the publish, r2 the read after handle_event.          *)

OutcomeFields == {"r0", "w", "r1", "p", "r2"}

\* the outcomes an operation can meet: every call succeeds unless the run is
\* faulty (f), and only the calls the operation can make (used) are varied
Outcomes(f, used) ==
    {o \in [OutcomeFields -> Outcome] :
        \A k \in OutcomeFields : (~f \/ k \notin used) => o[k] = OK}

Ctx(t, st, n, lg) ==
    [table |-> t, state |-> st, amc |-> n, log |-> lg, exc |-> "none",
     calls |-> <<>>]

Called(c, name, o) == [c EXCEPT !.calls = Append(@, <<name, o>>)]

\* get_db_value: [exc, ret].  A ClientError is caught and 0 returned; a
\* response without 'Item' makes response['Item'] raise KeyError, which no
\* except clause catches.
get_db_value(t, o) ==
    IF o = ClientError THEN [exc |-> "none", ret |-> 0]
    ELSE LET response == get_item(t, "open")
         IN IF "Item" \notin DOMAIN response
            THEN [exc |-> "KeyError", ret |-> 0]
            ELSE [exc |-> "none", ret |-> DictGet(response.Item, "value", 0)]

Root_get_db_value(t, o) == get_db_value(t, o)

\* a faulty derivation: the OPEN case is missing, 1 is taken for CLOSED
M_get_current_state(db_value) ==
    IF db_value <= 1 THEN "CLOSED" ELSE "AJAR"

\* get_current_state, given the value get_db_value returned
get_current_state(db_value) ==
    IF db_value = 0 THEN "CLOSED"
    ELSE IF db_value = 1 THEN "OPEN"
    ELSE "AJAR"

\* a faulty send_sns_message: the ClientError of publish is not caught
M_send_sns_message(c, message, o) ==
    Called([c EXCEPT !.log =
                IF o = ClientError THEN @
                ELSE Append(@, [msg |-> message, at |-> StoredCounter(c.table)]),
                     !.exc = IF o = ClientError THEN "ClientError" ELSE @],
           "publish", o)

send_sns_message(c, message, o) ==
    Called([c EXCEPT !.log =
                IF o = ClientError THEN @
                ELSE Append(@, [msg |-> message, at |-> StoredCounter(c.table)])],
           "publish", o)

Root_send_sns_message(c, message, o) == send_sns_message(c, message, o)

Lambda_increment_db_value(c, o) ==
    Called([c EXCEPT !.table =
                IF o = ClientError THEN @ ELSE UpdateIncrement("lambda", @)],
           "update_item", o)

Lambda_reset_db_value(c, o) ==
    Called([c EXCEPT !.table =
                IF o = ClientError THEN @ ELSE UpdateReset("lambda", @)],
           "update_item", o)

Root_increment_db_value(c, o) ==
    Called([c EXCEPT !.table =
                IF o = ClientError THEN @ ELSE UpdateIncrement("root", @)],
           "update_item", o)

Root_reset_db_value(c, o) ==
    Called([c EXCEPT !.table =
                IF o = ClientError THEN @ ELSE UpdateReset("root", @)],
           "update_item", o)

\* a faulty backoff test: every even counter notifies
M_Lambda_ajar_test(counter) == counter % 2 = 0 /\ counter > 0

\* counter & (counter - 1) == 0 and counter > 0
Lambda_ajar_test(counter) ==
    BitAnd(counter, counter - 1) = 0 /\ counter > 0

\* counter >= 2 ** (self.ajar_message_count + 1)
Root_ajar_test(counter, n) == counter >= 2 ^ (n + 1)

Lambda_transition_to_open(c, out) ==
    send_sns_message([c EXCEPT !.state = "OPEN"], Lambda_MsgOpen, out.p)

\* a faulty transition_to_ajar: the notification is sent, self.state is not set
M_Lambda_transition_to_ajar(c, out) ==
    send_sns_message(c, Lambda_MsgAjar, out.p)

Lambda_transition_to_ajar(c, out) ==
    send_sns_message([c EXCEPT !.state = "AJAR"], Lambda_MsgAjar, out.p)

\* a faulty threshold: counter > 2
M_Lambda_closed_test(counter) == counter > 2

\* a faulty threshold: counter > 0, as the docstring has it
M_Lambda_closed_test_docstring(counter) == counter > 0

\* the notification threshold of transition_to_closed
Lambda_closed_test(counter) == counter > 1

Lambda_transition_to_closed(c, out) ==
    LET c1 == Called([c EXCEPT !.state = "CLOSED"], "get_item", out.r1)
        r == get_db_value(c.table, out.r1)
    IN IF r.exc # "none" THEN [c1 EXCEPT !.exc = r.exc]
       ELSE IF Lambda_closed_test(r.ret)
            THEN send_sns_message(c1, Lambda_MsgClosed, out.p)
            ELSE c1

Lambda_handle_ajar_state(c, out) ==
    LET c1 == Called(c, "get_item", out.r1)
        r == get_db_value(c.table, out.r1)
    IN IF r.exc # "none" THEN [c1 EXCEPT !.exc = r.exc]
       ELSE IF Lambda_ajar_test(r.ret)
            THEN send_sns_message(c1, Lambda_MsgStillAjar(r.ret), out.p)
            ELSE c1

\* a faulty handle_event: the state tests of "open" are separate ifs, so a
\* transition falls through into the test of the state it has just set
M_Lambda_handle_event_fallthrough(c, event, out) ==
    IF event = "open" THEN
        LET c1 == Lambda_increment_db_value(c, out.w)
            c2 == IF c1.state = "CLOSED" THEN Lambda_transition_to_open(c1, out)
                  ELSE c1
            c3 == IF c2.state = "OPEN" THEN Lambda_transition_to_ajar(c2, out)
                  ELSE c2
        IN IF c3.state = "AJAR" THEN Lambda_handle_ajar_state(c3, out) ELSE c3
    ELSE IF event = "closed" THEN
        LET c1 == Lambda_transition_to_closed(c, out)
        IN IF c1.exc # "none" THEN c1 ELSE Lambda_reset_db_value(c1, out.w)
    ELSE c

\* a faulty handle_event: "closed" resets the counter before
\* transition_to_closed reads it, as the root class does
M_Lambda_handle_event(c, event, out) ==
    IF event = "open" THEN
        LET c1 == Lambda_increment_db_value(c, out.w)
        IN IF c1.state = "CLOSED" THEN Lambda_transition_to_open(c1, out)
           ELSE IF c1.state = "OPEN" THEN Lambda_transition_to_ajar(c1, out)
           ELSE IF c1.state = "AJAR" THEN Lambda_handle_ajar_state(c1, out)
           ELSE c1
    ELSE IF event = "closed" THEN
        Lambda_transition_to_closed(Lambda_reset_db_value(c, out.w), out)
    ELSE c

Lambda_handle_event(c, event, out) ==
    IF event = "open" THEN
        LET c1 == Lambda_increment_db_value(c, out.w)
        IN IF c1.state = "CLOSED" THEN Lambda_transition_to_open(c1, out)
           ELSE IF c1.state = "OPEN" THEN Lambda_transition_to_ajar(c1, out)
           ELSE IF c1.state = "AJAR" THEN Lambda_handle_ajar_state(c1, out)
           ELSE c1
    ELSE IF event = "closed" THEN
        LET c1 == Lambda_transition_to_closed(c, out)
        IN IF c1.exc # "none" THEN c1 ELSE Lambda_reset_db_value(c1, out.w)
    ELSE c

\* a faulty __init__: the state starts at CLOSED whatever the store holds
M_Lambda_init(t, lg, out) ==
    LET c1 == Called(Ctx(t, "CLOSED", 0, lg), "get_item", out.r0)
        r == get_db_value(t, out.r0)
    IN IF r.exc # "none" THEN [c1 EXCEPT !.exc = r.exc]
       ELSE [c1 EXCEPT !.state = "CLOSED", !.amc = 1]

\* __init__: self.state = self.get_current_state(); ajar_message_count = 1
Lambda_init(t, lg, out) ==
    LET c1 == Called(Ctx(t, "CLOSED", 0, lg), "get_item", out.r0)
        r == get_db_value(t, out.r0)
    IN IF r.exc # "none" THEN [c1 EXCEPT !.exc = r.exc]
       ELSE [c1 EXCEPT !.state = get_current_state(r.ret), !.amc = 1]

Root_transition_to_open(c, out) ==
    Root_send_sns_message([c EXCEPT !.state = "OPEN"], Root_MsgOpen, out.p)

\* a faulty transition_to_ajar: the notification is sent, self.state is not set
M_Root_transition_to_ajar(c, out) ==
    Root_send_sns_message(c, Root_MsgAjar, out.p)

Root_transition_to_ajar(c, out) ==
    Root_send_sns_message([c EXCEPT !.state = "AJAR"], Root_MsgAjar, out.p)

Root_closed_test(counter) == counter > 0

Root_transition_to_closed(c, out) ==
    LET c1 == Called([c EXCEPT !.state = "CLOSED"], "get_item", out.r1)
        r == Root_get_db_value(c.table, out.r1)
    IN IF r.exc # "none" THEN [c1 EXCEPT !.exc = r.exc]
       ELSE IF Root_closed_test(r.ret)
            THEN Root_send_sns_message(c1, Root_MsgClosed, out.p)
            ELSE c1

Root_handle_ajar_state(c, out) ==
    LET c1 == Called(c, "get_item", out.r1)
        r == Root_get_db_value(c.table, out.r1)
    IN IF r.exc # "none" THEN [c1 EXCEPT !.exc = r.exc]
       ELSE IF Root_ajar_test(r.ret, c.amc)
            THEN Root_send_sns_message([c1 EXCEPT !.amc = c.amc + 1],
                                       Root_MsgStillAjar(c.amc + 1), out.p)
            ELSE c1

\* a faulty handle_event: every event other than "open" is taken as "closed"
M_Root_handle_event(c, event, out) ==
    IF event = "open" THEN
        LET c1 == Root_increment_db_value(c, out.w)
        IN IF c1.state = "CLOSED" THEN Root_transition_to_open(c1, out)
           ELSE IF c1.state = "OPEN" THEN Root_transition_to_ajar(c1, out)
           ELSE IF c1.state = "AJAR" THEN Root_handle_ajar_state(c1, out)
           ELSE c1
    ELSE Root_transition_to_closed(Root_reset_db_value(c, out.w), out)

Root_handle_event(c, event, out) ==
    IF event = "open" THEN
        LET c1 == Root_increment_db_value(c, out.w)
        IN IF c1.state = "CLOSED" THEN Root_transition_to_open(c1, out)
           ELSE IF c1.state = "OPEN" THEN Root_transition_to_ajar(c1, out)
           ELSE IF c1.state = "AJAR" THEN Root_handle_ajar_state(c1, out)
           ELSE c1
    ELSE IF event = "closed" THEN
        Root_transition_to_closed(Root_reset_db_value(c, out.w), out)
    ELSE c

\* a faulty __init__: the state is derived from the stored counter
M_Root_init(t, lg, out) ==
    Ctx(t, get_current_state(IF HasRecord(t) THEN StoredCounter(t) ELSE 0), 0, lg)

\* __init__: self.state = "CLOSED"; ajar_message_count = 0; no store call
Root_init(t, lg, out) == Ctx(t, "CLOSED", 0, lg)

\* the class the run uses
Construct_(v, t, lg, out) ==
    IF v = "lambda" THEN Lambda_init(t, lg, out) ELSE Root_init(t, lg, out)

HandleEvent_(v, c, event, out) ==
    IF v = "lambda" THEN Lambda_handle_event(c, event, out)
    ELSE Root_handle_event(c, event, out)

----------------------------------------------------------------------------
(* The HTTP entry point, src/lambda/mailbox_lambda.py.                     *)
(* A request path is the sequence of its characters; the environment is a  *)
(* dict from variable names to strings.                                    *)

Chars_open == <<"o", "p", "e", "n">>
Chars_closed == <<"c", "l", "o", "s", "e", "d">>

\* Python's  sub in s  on strings
Contains(sub, s) ==
    \E i \in 1..(Len(s) - Len(sub) + 1) : SubSeq(s, i, i + Len(sub) - 1) = sub

\* os.getenv(name): None when the variable is not set
getenv(env, name) ==
    IF name \in DOMAIN env THEN [none |-> FALSE, str |-> env[name]]
    ELSE [none |-> TRUE, str |-> ""]

\* a faulty test: only None counts as missing, the empty string does not
M_Not_(x) == x.none

\* Python's  not x  on an Optional[str]
Not_(x) == x.none \/ x.str = ""

\* handler(event, context): [resp, exc, entered, event, from, c]
\*   resp    the statusCode returned (0 when an exception propagates)
\*   entered whether handle_event was called, and with which event
\*   from    mailbox.state when handle_event was called
\*   c       the context after the call
http_handler(t, lg, rawPath, env, out) ==
    LET untouched == [resp |-> 0, exc |-> "none", entered |-> FALSE,
                      event |-> "", from |-> "none", c |-> Ctx(t, "none", 0, lg)]
        mailbox_status == IF Contains(Chars_open, rawPath) THEN "open"
                          ELSE IF Contains(Chars_closed, rawPath) THEN "closed"
                          ELSE ""
        sns_arn == getenv(env, "MAILBOX_SNS_ARN")
        dynamodb_name == getenv(env, "MAILBOX_DYNAMODB_TABLE")
    IN IF mailbox_status = "" THEN [untouched EXCEPT !.resp = 400]
       ELSE IF Not_(sns_arn) \/ Not_(dynamodb_name)
            THEN [untouched EXCEPT !.resp = 500, !.event = mailbox_status]
       ELSE LET c0 == Lambda_init(t, lg, out)
                c1 == Lambda_handle_event(c0, mailbox_status, out)
                c2 == Called(c1, "get_item", out.r2)
                r == get_db_value(c1.table, out.r2)
            IN IF c0.exc # "none"
               THEN [untouched EXCEPT !.exc = c0.exc, !.event = mailbox_status,
                                      !.c = c0]
               ELSE IF c1.exc # "none"
               THEN [resp |-> 0, exc |-> c1.exc, entered |-> TRUE,
                     event |-> mailbox_status, from |-> c0.state, c |-> c1]
               ELSE IF r.exc # "none"
               THEN [resp |-> 0, exc |-> r.exc, entered |-> TRUE,
                     event |-> mailbox_status, from |-> c0.state,
                     c |-> [c2 EXCEPT !.exc = r.exc]]
               ELSE [resp |-> 200, exc |-> "none", entered |-> TRUE,
                     event |-> mailbox_status, from |-> c0.state, c |-> c2]

\* src/lambda/app.py: the messages of the two exceptions handler raises
ERROR_MSG_DOOR_KEY_MISSING == "MBS001 - Ignoring event as \"door\" key is missing."
ERROR_MSG_ENV_VARS_MISSING ==
    "MBS002 - SNS_ARN and DYNAMODB_TABLE environment variables are required."

\* app.handler(event, context): [exc, entered, event, from, c]
\*   exc     the exception that propagates to the caller ("none": returns None)
\*   entered whether handle_event was called, and with which event
\*   from    mailbox.state when handle_event was called
\*   c       the context after the call
app_handler(t, lg, event, env, out) ==
    LET untouched == [exc |-> "none", entered |-> FALSE, event |-> "",
                      from |-> "none", c |-> Ctx(t, "none", 0, lg)]
    IN IF "door" \notin DOMAIN event
       THEN [untouched EXCEPT !.exc = ERROR_MSG_DOOR_KEY_MISSING]
       ELSE LET mailbox_status == event.door
                sns_arn == getenv(env, "MAILBOX_SNS_ARN")
                dynamodb_name == getenv(env, "MAILBOX_DYNAMODB_TABLE")
            IN IF Not_(sns_arn) \/ Not_(dynamodb_name)
               THEN [untouched EXCEPT !.exc = ERROR_MSG_ENV_VARS_MISSING,
                                      !.event = mailbox_status]
               ELSE LET c0 == Lambda_init(t, lg, out)
                        c1 == Lambda_handle_event(c0, mailbox_status, out)
                        c2 == Called(c1, "get_item", out.r2)
                        r == get_db_value(c1.table, out.r2)
                    IN IF c0.exc # "none"
                       THEN [untouched EXCEPT !.exc = c0.exc,
                                              !.event = mailbox_status, !.c = c0]
                       ELSE IF c1.exc # "none"
                       THEN [exc |-> c1.exc, entered |-> TRUE,
                             event |-> mailbox_status, from |-> c0.state,
                             c |-> c1]
                       ELSE [exc |-> r.exc, entered |-> TRUE,
                             event |-> mailbox_status, from |-> c0.state,
                             c |-> [c2 EXCEPT !.exc = r.exc]]

----------------------------------------------------------------------------
(* Inputs. *)

Variants == {"lambda", "root"}
Events == {"open", "closed"}

\* an event value handle_event does not recognize
OtherEvents == {"ajar"}

\* the item create_initial_key_value puts, or a previous run left
InitialItem(n) == [id |-> "open", value |-> n, timestamp |-> "ts"]

\* the table at the start of a run: empty, or holding the counter item
InitialTables == {{}} \cup {{InitialItem(n)} : n \in 0..MaxInit}

Paths ==
    { <<"/">> \o Chars_open,
      <<"/">> \o Chars_closed,
      <<"/">> \o Chars_closed \o <<"/">> \o Chars_open,
      <<"/", "a", "j", "a", "r">> }

Envs ==
    { [MAILBOX_SNS_ARN |-> "arn", MAILBOX_DYNAMODB_TABLE |-> "mailbox-state-v2"],
      [MAILBOX_SNS_ARN |-> "", MAILBOX_DYNAMODB_TABLE |-> "mailbox-state-v2"],
      [MAILBOX_SNS_ARN |-> "arn"] }

\* the event dictionaries app.handler is triggered with: 'door' set to a
\* recognized value, set to another value, and not set
Triggers ==
    { [door |-> "open"], [door |-> "closed"], [door |-> "ajar"],
      [water_level |-> "open"] }

\* the environments of app.handler: both variables set, one not set
AppEnvs ==
    { [MAILBOX_SNS_ARN |-> "arn", MAILBOX_DYNAMODB_TABLE |-> "mailbox-state-v2"],
      [MAILBOX_DYNAMODB_TABLE |-> "mailbox-state-v2"] }

EventBound == IF faulty THEN MaxEventsFaulty ELSE MaxEvents

----------------------------------------------------------------------------
(* State. *)

NoLast ==
    [op |-> "none", event |-> "", before |-> {}, exc |-> "none",
     calls |-> <<>>, sent |-> <<>>, ret |-> 0, resp |-> 0, entered |-> FALSE,
     from |-> "none", amcFrom |-> 0, path |-> <<>>, env |-> <<>>,
     trigger |-> <<>>]

\* the messages context c added to the log lg
Sent(c, lg) == SubSeq(c.log, Len(lg) + 1, Len(c.log))

\* the second run at its start, and after an operation that took it to
\* context c2 (entered: handle_event was called; d: a publish call of the
\* operation ended differently in the two runs)
TwinAt(t) ==
    [table |-> t, state |-> "none", amc |-> 0, exc |-> "none",
     differed |-> FALSE]

TwinAfter(tw, c2, entered, d) ==
    [table |-> c2.table,
     state |-> IF entered THEN c2.state ELSE tw.state,
     amc |-> IF entered THEN c2.amc ELSE tw.amc,
     exc |-> c2.exc,
     differed |-> tw.differed \/ d]

\* the outcomes of the second run: those of the first, but the publish
\* succeeds
TwinOutcomes(out) == {[out EXCEPT !["p"] = OK]}

Published(calls) == \E i \in 1..Len(calls) : calls[i][1] = "publish"

Procs == {1, 2}

IdleInvocation == [pc |-> "idle", event |-> "", state |-> "none", amc |-> 0,
                   msg |-> <<>>]

InitWith(f, modes) ==
    /\ variant \in Variants
    /\ mode \in modes
    /\ faulty = f
    /\ table \in InitialTables
    /\ table0 = table
    /\ state = "none"
    /\ amc = 0
    /\ log = <<>>
    /\ hist = <<>>
    /\ status = "none"
    /\ last = NoLast
    /\ twin = TwinAt(table)
    /\ inv = [p \in Procs |-> IdleInvocation]

Init == InitWith(FALSE, {"long", "fresh"})

InitFaulty == InitWith(TRUE, {"long", "fresh"})

----------------------------------------------------------------------------
(* Sequential operations. *)

\* mailbox = MailboxStateMachine(sns_arn, dynamodb_name), kept for the run
Construct ==
    /\ mode = "long"
    /\ status = "none"
    /\ \E out \in Outcomes(faulty, {"r0"}) :
       \E c \in {Construct_(variant, table, log, out)},
          c2 \in {Construct_(variant, twin.table, <<>>, out)} :
             /\ status' = IF c.exc = "none" THEN "ready" ELSE "raised"
             /\ state' = IF c.exc = "none" THEN c.state ELSE state
             /\ amc' = IF c.exc = "none" THEN c.amc ELSE amc
             /\ last' = [NoLast EXCEPT !.op = "__init__", !.before = table,
                                       !.exc = c.exc, !.calls = c.calls]
             /\ twin' = TwinAfter(twin, c2, c2.exc = "none", FALSE)
    /\ UNCHANGED <<variant, mode, faulty, table, table0, log, hist, inv>>

\* mailbox.handle_event(event) on the long-lived instance
HandleEvent ==
    /\ mode = "long"
    /\ status = "ready"
    /\ Len(hist) < EventBound
    /\ \E event \in Events \cup OtherEvents,
          out \in Outcomes(faulty, {"w", "r1", "p"}) :
       \E out2 \in TwinOutcomes(out) :
       \E c \in {HandleEvent_(variant, Ctx(table, state, amc, log), event, out)},
          c2 \in {HandleEvent_(variant,
                               Ctx(twin.table, twin.state, twin.amc, <<>>),
                               event, out2)} :
             /\ table' = c.table
             /\ state' = c.state
             /\ amc' = c.amc
             /\ log' = c.log
             /\ hist' = IF event \in Events THEN Append(hist, event) ELSE hist
             /\ status' = IF c.exc = "none" THEN "ready" ELSE "raised"
             /\ last' = [NoLast EXCEPT !.op = "handle_event", !.event = event,
                                       !.before = table, !.exc = c.exc,
                                       !.calls = c.calls, !.sent = Sent(c, log),
                                       !.entered = TRUE, !.from = state,
                                       !.amcFrom = amc]
             /\ twin' = TwinAfter(twin, c2, TRUE,
                                  out2.p # out.p /\ Published(c.calls))
    /\ UNCHANGED <<variant, mode, faulty, table0, inv>>

\* MailboxStateMachine(sns_arn, dynamodb_name).handle_event(event), as
\* src/lambda/app.py and mailbox_lambda.py do for each trigger: [c0, c], the
\* context after __init__ and after the whole call
fresh_event(v, t, lg, event, out) ==
    LET c0 == Construct_(v, t, lg, out)
    IN [c0 |-> c0,
        c |-> IF c0.exc = "none" THEN HandleEvent_(v, c0, event, out) ELSE c0]

\* one instance per event
FreshEvent ==
    /\ mode = "fresh"
    /\ Len(hist) < EventBound
    /\ \E event \in Events \cup OtherEvents,
          out \in Outcomes(faulty, {"r0", "w", "r1", "p"}) :
       \E out2 \in TwinOutcomes(out) :
       \E r \in {fresh_event(variant, table, log, event, out)},
          r2 \in {fresh_event(variant, twin.table, <<>>, event, out2)} :
             /\ table' = r.c.table
             /\ state' = IF r.c0.exc = "none" THEN r.c.state ELSE state
             /\ amc' = IF r.c0.exc = "none" THEN r.c.amc ELSE amc
             /\ log' = r.c.log
             /\ hist' = IF r.c0.exc = "none" /\ event \in Events
                        THEN Append(hist, event) ELSE hist
             /\ last' = [NoLast EXCEPT !.op = "fresh", !.event = event,
                                       !.before = table, !.exc = r.c.exc,
                                       !.calls = r.c.calls,
                                       !.sent = Sent(r.c, log),
                                       !.entered = (r.c0.exc = "none"),
                                       !.from = IF r.c0.exc = "none"
                                                THEN r.c0.state ELSE "none",
                                       !.amcFrom = r.c0.amc]
             /\ twin' = TwinAfter(twin, r2.c, r2.c0.exc = "none",
                                  out2.p # out.p /\ Published(r.c.calls))
    /\ UNCHANGED <<variant, mode, faulty, table0, status, inv>>

\* the boto3 calls a request can lead to: none when it is answered 400 or 500
HttpCalls(rawPath, env) ==
    IF http_handler({}, <<>>, rawPath, env, [k \in OutcomeFields |-> OK]).resp
           \in {400, 500}
    THEN {}
    ELSE OutcomeFields

\* one HTTP request served by mailbox_lambda.handler
HttpHandler ==
    /\ variant = "lambda"
    /\ mode = "fresh"
    /\ Len(hist) < EventBound
    /\ \E rawPath \in Paths, env \in Envs :
       \E out \in Outcomes(faulty, HttpCalls(rawPath, env)) :
       \E out2 \in TwinOutcomes(out) :
       \E h \in {http_handler(table, log, rawPath, env, out)},
          h2 \in {http_handler(twin.table, <<>>, rawPath, env, out2)} :
             /\ table' = h.c.table
             /\ state' = IF h.entered THEN h.c.state ELSE state
             /\ amc' = IF h.entered THEN h.c.amc ELSE amc
             /\ log' = h.c.log
             /\ hist' = IF h.entered THEN Append(hist, h.event) ELSE hist
             /\ last' = [NoLast EXCEPT !.op = "http", !.event = h.event,
                                       !.before = table, !.exc = h.exc,
                                       !.calls = h.c.calls,
                                       !.sent = Sent(h.c, log),
                                       !.resp = h.resp, !.entered = h.entered,
                                       !.from = h.from, !.amcFrom = h.c.amc,
                                       !.path = rawPath, !.env = env]
             /\ twin' = TwinAfter(twin, [h2.c EXCEPT !.exc = h2.exc], h2.entered,
                                  out2.p # out.p /\ Published(h.c.calls))
    /\ UNCHANGED <<variant, mode, faulty, table0, status, inv>>

\* mailbox.get_db_value() called on the long-lived instance
GetDbValue ==
    /\ mode = "long"
    /\ status = "ready"
    /\ \E out \in Outcomes(faulty, {"r2"}) :
       \E r \in {IF variant = "lambda" THEN get_db_value(table, out.r2)
                 ELSE Root_get_db_value(table, out.r2)},
          r2 \in {IF variant = "lambda" THEN get_db_value(twin.table, out.r2)
                  ELSE Root_get_db_value(twin.table, out.r2)} :
             /\ status' = IF r.exc = "none" THEN "ready" ELSE "raised"
             /\ last' = [NoLast EXCEPT !.op = "get_db_value", !.before = table,
                                       !.exc = r.exc, !.ret = r.ret,
                                       !.calls = <<<<"get_item", out.r2>>>>]
             /\ twin' = [twin EXCEPT !.exc = r2.exc]
    /\ UNCHANGED <<variant, mode, faulty, table, table0, state, amc, log, hist,
                   inv>>

\* mailbox.reset_db_value() called directly on the long-lived instance, the
\* last statement of the run: the counter is written, self.state,
\* ajar_message_count and the notifications are left as they are
ResetDbValue ==
    /\ mode = "long"
    /\ status = "ready"
    /\ \E out \in Outcomes(faulty, {"w"}) :
       \E c \in {IF variant = "lambda"
                 THEN Lambda_reset_db_value(Ctx(table, state, amc, log), out.w)
                 ELSE Root_reset_db_value(Ctx(table, state, amc, log), out.w)},
          c2 \in {IF variant = "lambda"
                  THEN Lambda_reset_db_value(
                           Ctx(twin.table, twin.state, twin.amc, <<>>), out.w)
                  ELSE Root_reset_db_value(
                           Ctx(twin.table, twin.state, twin.amc, <<>>), out.w)} :
             /\ table' = c.table
             /\ state' = c.state
             /\ amc' = c.amc
             /\ log' = c.log
             /\ status' = "finished"
             /\ last' = [NoLast EXCEPT !.op = "reset_db_value", !.before = table,
                                       !.exc = c.exc, !.calls = c.calls,
                                       !.sent = Sent(c, log), !.from = state,
                                       !.amcFrom = amc]
             /\ twin' = TwinAfter(twin, c2, TRUE, FALSE)
    /\ UNCHANGED <<variant, mode, faulty, table0, hist, inv>>

\* the boto3 calls a trigger can lead to: none when an input or
\* configuration exception is raised
AppCalls(event, env) ==
    IF app_handler({}, <<>>, event, env, [k \in OutcomeFields |-> OK]).exc
           \in {ERROR_MSG_DOOR_KEY_MISSING, ERROR_MSG_ENV_VARS_MISSING}
    THEN {}
    ELSE OutcomeFields

\* one trigger served by app.handler
AppHandler ==
    /\ variant = "lambda"
    /\ mode = "fresh"
    /\ Len(hist) < EventBound
    /\ \E event \in Triggers, env \in AppEnvs :
       \E out \in Outcomes(faulty, AppCalls(event, env)) :
       \E out2 \in TwinOutcomes(out) :
       \E h \in {app_handler(table, log, event, env, out)},
          h2 \in {app_handler(twin.table, <<>>, event, env, out2)} :
             /\ table' = h.c.table
             /\ state' = IF h.entered THEN h.c.state ELSE state
             /\ amc' = IF h.entered THEN h.c.amc ELSE amc
             /\ log' = h.c.log
             /\ hist' = IF h.entered /\ h.event \in Events
                        THEN Append(hist, h.event) ELSE hist
             /\ last' = [NoLast EXCEPT !.op = "app", !.event = h.event,
                                       !.before = table, !.exc = h.exc,
                                       !.calls = h.c.calls,
                                       !.sent = Sent(h.c, log),
                                       !.entered = h.entered,
                                       !.from = h.from, !.amcFrom = h.c.amc,
                                       !.env = env, !.trigger = event]
             /\ twin' = TwinAfter(twin, [h2.c EXCEPT !.exc = h2.exc], h2.entered,
                                  out2.p # out.p /\ Published(h.c.calls))
    /\ UNCHANGED <<variant, mode, faulty, table0, status, inv>>

Next ==
    \/ Construct
    \/ HandleEvent
    \/ FreshEvent
    \/ HttpHandler
    \/ AppHandler
    \/ GetDbValue
    \/ ResetDbValue

Spec == Init /\ [][Next]_vars

\* the operations run with failing boto3 calls: the state machine's own, and
\* the HTTP handler as the entry point that wraps them
NextFaulty ==
    \/ Construct
    \/ HandleEvent
    \/ FreshEvent
    \/ HttpHandler
    \/ GetDbValue
    \/ ResetDbValue

SpecFaulty == InitFaulty /\ [][NextFaulty]_vars

----------------------------------------------------------------------------
(* Concurrent invocations.                                                 *)
(* Two invocations run at once, each with its own MailboxStateMachine      *)
(* instance and one event.  A step is one boto3 call (atomic at the        *)
(* service) together with the local code up to the next call.  inv[p].pc   *)
(* is the position of invocation p:                                        *)
(*   "init"        about to construct the instance                         *)
(*   "handle"      about to enter handle_event                             *)
(*   "ajar_read"   in handle_ajar_state, about to call get_db_value        *)
(*   "closed_read" in transition_to_closed, about to call get_db_value     *)
(*   "publish"     in send_sns_message, about to publish inv[p].msg        *)
(*   "reset"       about to call reset_db_value                            *)
(*   "done" / "raised"  returned / ended by an exception                   *)

InitConc ==
    /\ variant \in Variants
    /\ mode = "conc"
    /\ faulty = FALSE
    /\ table \in InitialTables
    /\ table0 = table
    /\ state = "none"
    /\ amc = 0
    /\ log = <<>>
    /\ hist = <<>>
    /\ status = "none"
    /\ last = NoLast
    /\ twin = TwinAt(table)
    /\ inv \in [Procs -> {[IdleInvocation EXCEPT !.pc = "init", !.event = e] :
                              e \in Events}]

ConcUnchanged ==
    <<variant, mode, faulty, table0, state, amc, hist, status, last, twin>>

\* MailboxStateMachine(...) of invocation p
ConcInit(p) ==
    /\ inv[p].pc = "init"
    /\ LET r == get_db_value(table, OK)
       IN inv' = [inv EXCEPT ![p] =
              IF variant = "root"
              THEN [@ EXCEPT !.pc = "handle", !.state = "CLOSED", !.amc = 0]
              ELSE IF r.exc # "none" THEN [@ EXCEPT !.pc = "raised"]
              ELSE [@ EXCEPT !.pc = "handle",
                             !.state = get_current_state(r.ret), !.amc = 1]]
    /\ UNCHANGED <<table, log>>
    /\ UNCHANGED ConcUnchanged

\* handle_event("open"): increment_db_value, then the branch on self.state
ConcIncrement(p) ==
    /\ inv[p].pc = "handle"
    /\ inv[p].event = "open"
    /\ table' = UpdateIncrement(variant, table)
    /\ inv' = [inv EXCEPT ![p] =
          IF @.state = "CLOSED"
          THEN [@ EXCEPT !.state = "OPEN", !.pc = "publish",
                         !.msg = IF variant = "lambda" THEN Lambda_MsgOpen
                                 ELSE Root_MsgOpen]
          ELSE IF @.state = "OPEN"
          THEN [@ EXCEPT !.state = "AJAR", !.pc = "publish",
                         !.msg = IF variant = "lambda" THEN Lambda_MsgAjar
                                 ELSE Root_MsgAjar]
          ELSE [@ EXCEPT !.pc = "ajar_read"]]
    /\ UNCHANGED log
    /\ UNCHANGED ConcUnchanged

\* handle_ajar_state: get_db_value and the backoff test
ConcAjarRead(p) ==
    /\ inv[p].pc = "ajar_read"
    /\ LET r == get_db_value(table, OK)
       IN inv' = [inv EXCEPT ![p] =
              IF r.exc # "none" THEN [@ EXCEPT !.pc = "raised"]
              ELSE IF variant = "lambda"
              THEN IF Lambda_ajar_test(r.ret)
                   THEN [@ EXCEPT !.pc = "publish",
                                  !.msg = Lambda_MsgStillAjar(r.ret)]
                   ELSE [@ EXCEPT !.pc = "done"]
              ELSE IF Root_ajar_test(r.ret, @.amc)
                   THEN [@ EXCEPT !.pc = "publish", !.amc = @ + 1,
                                  !.msg = Root_MsgStillAjar(inv[p].amc + 1)]
                   ELSE [@ EXCEPT !.pc = "done"]]
    /\ UNCHANGED <<table, log>>
    /\ UNCHANGED ConcUnchanged

\* transition_to_closed: self.state = "CLOSED", get_db_value and the test.
\* The lambda variant does this first, the root variant after the reset.
ConcClosedRead(p) ==
    /\ inv[p].event = "closed"
    /\ \/ variant = "lambda" /\ inv[p].pc = "handle"
       \/ variant = "root" /\ inv[p].pc = "closed_read"
    /\ LET r == get_db_value(table, OK)
           after == IF variant = "lambda" THEN "reset" ELSE "done"
       IN inv' = [inv EXCEPT ![p] =
              IF r.exc # "none" THEN [@ EXCEPT !.state = "CLOSED", !.pc = "raised"]
              ELSE IF variant = "lambda" /\ Lambda_closed_test(r.ret)
              THEN [@ EXCEPT !.state = "CLOSED", !.pc = "publish",
                             !.msg = Lambda_MsgClosed]
              ELSE IF variant = "root" /\ Root_closed_test(r.ret)
              THEN [@ EXCEPT !.state = "CLOSED", !.pc = "publish",
                             !.msg = Root_MsgClosed]
              ELSE [@ EXCEPT !.state = "CLOSED", !.pc = after]]
    /\ UNCHANGED <<table, log>>
    /\ UNCHANGED ConcUnchanged

\* send_sns_message: sns_client.publish
ConcPublish(p) ==
    /\ inv[p].pc = "publish"
    /\ log' = Append(log, [msg |-> inv[p].msg, at |-> StoredCounter(table)])
    /\ inv' = [inv EXCEPT ![p] =
          [@ EXCEPT !.pc = IF variant = "lambda" /\ inv[p].event = "closed"
                           THEN "reset" ELSE "done"]]
    /\ UNCHANGED table
    /\ UNCHANGED ConcUnchanged

\* reset_db_value: the lambda variant does this last, the root variant first
ConcReset(p) ==
    /\ inv[p].event = "closed"
    /\ \/ variant = "lambda" /\ inv[p].pc = "reset"
       \/ variant = "root" /\ inv[p].pc = "handle"
    /\ table' = UpdateReset(variant, table)
    /\ inv' = [inv EXCEPT ![p] =
          [@ EXCEPT !.pc = IF variant = "lambda" THEN "done" ELSE "closed_read"]]
    /\ UNCHANGED log
    /\ UNCHANGED ConcUnchanged

NextConc ==
    \E p \in Procs :
        \/ ConcInit(p)
        \/ ConcIncrement(p)
        \/ ConcAjarRead(p)
        \/ ConcClosedRead(p)
        \/ ConcPublish(p)
        \/ ConcReset(p)

SpecConc == InitConc /\ [][NextConc]_vars

----------------------------------------------------------------------------
(* Vocabulary of the properties. *)

Opens(n) == [i \in 1..n |-> "open"]

\* the number of "open" events at the end of h
RECURSIVE TrailingOpens(_)
TrailingOpens(h) ==
    IF h = <<>> \/ h[Len(h)] # "open" THEN 0
    ELSE 1 + TrailingOpens(SubSeq(h, 1, Len(h) - 1))

\* the run of "open" events at the end of hist began at counter 0 / CLOSED:
\* at the start of a run on a table holding 0, or right after a "closed"
OpenRunFromClosed ==
    LET n == TrailingOpens(hist)
    IN IF n = Len(hist) THEN table0 = {InitialItem(0)}
       ELSE hist[Len(hist) - n] = "closed"

IsPowerOfTwo(n) == \E k \in 0..n : 2 ^ k = n

Texts(lg) == [i \in 1..Len(lg) |-> lg[i].msg]

SomeCallFailed(calls) == \E i \in 1..Len(calls) : calls[i][2] = ClientError

WriteFailed(calls) ==
    \E i \in 1..Len(calls) : calls[i] = <<"update_item", ClientError>>

----------------------------------------------------------------------------
(* C1. Lambda variant, no store failures: after the n-th consecutive       *)
(* "open" event of a run that began at counter 0 / CLOSED, the stored      *)
(* counter is n and the state is OPEN for n = 1 and AJAR for n >= 2, with  *)
(* one long-lived instance and with a fresh instance per event alike (as   *)
(* long as the run has not made its closing reset_db_value() call).        *)
C1_NthOpen ==
    (/\ variant = "lambda"
     /\ status # "finished"
     /\ TrailingOpens(hist) >= 1
     /\ OpenRunFromClosed)
        => /\ HasRecord(table)
           /\ StoredCounter(table) = TrailingOpens(hist)
           /\ state = IF TrailingOpens(hist) = 1 THEN "OPEN" ELSE "AJAR"

C1_Witness ==
    /\ variant = "lambda"
    /\ mode = "fresh"
    /\ hist = <<"open", "closed", "open", "open", "open">>
    /\ StoredCounter(table) = 3
    /\ state = "AJAR"

(* C2. Both variants: a "closed" event, from any prior state and counter,  *)
(* leaves the stored counter at 0 and the state CLOSED; handling any other *)
(* event, constructing an instance and reading the counter leave the       *)
(* counter at least as large as it was.                                    *)
C2_ClosedResets ==
    /\ (last.entered /\ last.event = "closed")
          => /\ last.exc = "none"
             /\ HasRecord(table)
             /\ StoredCounter(table) = 0
             /\ state = "CLOSED"
    /\ (~(last.entered /\ last.event = "closed") /\ last.op # "reset_db_value")
          => StoredCounter(table) >= StoredCounter(last.before)

C2_Witness ==
    /\ variant = "root"
    /\ last.entered
    /\ last.event = "closed"
    /\ last.from = "AJAR"
    /\ StoredCounter(last.before) >= 3
    /\ StoredCounter(table) = 0
    /\ state = "CLOSED"

(* C3. Lambda variant: a "closed" event sends the CLOSED notification if   *)
(* and only if the stored counter was greater than 0 just before the       *)
(* reset; so ["open", "closed"] from CLOSED / 0 yields one OPEN and then   *)
(* one CLOSED notification, and "closed" at counter 0 yields none.         *)
C3_ClosedNotifiesIffPositive ==
    (variant = "lambda" /\ last.entered /\ last.event = "closed")
        => /\ (StoredCounter(last.before) > 0)
                  => Texts(last.sent) = <<(<<"Mailbox CLOSED">>)>>
           /\ (StoredCounter(last.before) = 0) => last.sent = <<>>
           /\ (table0 = {InitialItem(0)} /\ hist = <<"open", "closed">>)
                  => Texts(log) = << <<"Mailbox OPEN">>, <<"Mailbox CLOSED">> >>

(* C4. Lambda variant, sequential events, no store failures: an "open"     *)
(* event sends a notification if and only if the counter after its         *)
(* increment is a power of two.                                            *)
C4_OpenNotifiesAtPowersOfTwo ==
    (variant = "lambda" /\ last.entered /\ last.event = "open")
        => /\ StoredCounter(table) = StoredCounter(last.before) + 1
           /\ Len(last.sent) <= 1
           /\ (Len(last.sent) = 1) <=> IsPowerOfTwo(StoredCounter(table))

C4_Witness ==
    /\ variant = "lambda"
    /\ last.entered
    /\ last.event = "open"
    /\ StoredCounter(table) = 8
    /\ Texts(last.sent) = << <<"Mailbox still AJAR, event count: ", 8>> >>
    /\ Len(log) >= 2
    /\ log[Len(log) - 1].at = 4

\* the "still AJAR" messages of a run of k "open" events: one for each power
\* of two p with 4 <= p <= k, in increasing order
StillAjarUpTo(k) ==
    LET cand == [i \in 1..(IF k >= 4 THEN k - 3 ELSE 0) |-> i + 3]
        pows == SelectSeq(cand, IsPowerOfTwo)
    IN [i \in 1..Len(pows) |->
           [msg |-> <<"Mailbox still AJAR, event count: ", pows[i]>>,
            at |-> pows[i]]]

ExpectedLog(k) ==
    << [msg |-> <<"Mailbox OPEN">>, at |-> 1],
       [msg |-> <<"Mailbox AJAR">>, at |-> 2] >>
        \o StillAjarUpTo(k)
        \o << [msg |-> <<"Mailbox CLOSED">>, at |-> k] >>

(* C5. Lambda variant: k >= 2 "open" events and then one "closed", from    *)
(* CLOSED / 0, publish in this order "Mailbox OPEN" (counter 1), "Mailbox  *)
(* AJAR" (counter 2), one "still AJAR" for each power of two p with        *)
(* 4 <= p <= k in increasing order, then "Mailbox CLOSED"; the final       *)
(* counter is 0.                                                           *)
C5_OpensThenClosedLog ==
    (/\ variant = "lambda"
     /\ table0 = {InitialItem(0)}
     /\ Len(hist) >= 3
     /\ hist = Opens(Len(hist) - 1) \o <<"closed">>)
        => /\ log = ExpectedLog(Len(hist) - 1)
           /\ StoredCounter(table) = 0

C5_Witness ==
    /\ variant = "lambda"
    /\ table0 = {InitialItem(0)}
    /\ hist = Opens(8) \o <<"closed">>
    /\ Len(log) = 5
    /\ log[3].at = 4
    /\ log[4].at = 8
    /\ log[5].msg = <<"Mailbox CLOSED">>
    /\ StoredCounter(table) = 0

(* C6. The two backoff rules are equivalent: in a run of consecutive       *)
(* "open" events handled by one root-variant instance from CLOSED / 0,     *)
(* notifications are sent at exactly the counter values at which the       *)
(* lambda variant sends them, the powers of two, and at no other value.    *)
C6_RootNotifiesAtPowersOfTwo ==
    (/\ variant = "root"
     /\ mode = "long"
     /\ table0 = {InitialItem(0)}
     /\ hist = Opens(Len(hist)))
        => {log[i].at : i \in 1..Len(log)}
               = {p \in 1..Len(hist) : IsPowerOfTwo(p)}

(* C7. Two concurrent "open" invocations on the same counter both take     *)
(* effect: once both have completed, the stored counter is its initial     *)
(* value plus 2, whatever the interleaving.                                *)
C7_BothIncrementsCount ==
    (\A p \in Procs : inv[p].event = "open" /\ inv[p].pc = "done")
        => StoredCounter(table) = StoredCounter(table0) + 2

C7_Witness ==
    /\ variant = "lambda"
    /\ \A p \in Procs : inv[p].event = "open" /\ inv[p].pc = "done"
    /\ \A p \in Procs : inv[p].state = "OPEN"
    /\ StoredCounter(table0) = 0
    /\ StoredCounter(table) = 2

(* C8. get_db_value returns 0, without raising, when the table holds no    *)
(* item under 'open' and when the read fails; otherwise it returns the     *)
(* stored integer.                                                         *)
C8_ReadNeverRaises ==
    (last.op = "get_db_value")
        => /\ last.exc = "none"
           /\ last.ret = IF SomeCallFailed(last.calls) \/ ~HasRecord(last.before)
                         THEN 0
                         ELSE StoredCounter(last.before)

(* C9. Lambda variant: with no counter item in the table, the first "open" *)
(* invocation (construct, then handle_event("open")) completes, creates    *)
(* the item with counter 1, leaves the state OPEN and sends "Mailbox       *)
(* OPEN".                                                                  *)
C9_FirstOpenCreatesRecord ==
    (/\ variant = "lambda"
     /\ last.op = "fresh"
     /\ last.event = "open"
     /\ ~HasRecord(last.before))
        => /\ last.exc = "none"
           /\ HasRecord(table)
           /\ StoredCounter(table) = 1
           /\ state = "OPEN"
           /\ Texts(last.sent) = << <<"Mailbox OPEN">> >>

(* C10. A store error in any store call never propagates: a failed write   *)
(* leaves the stored counter unchanged, handle_event completes, and the    *)
(* HTTP handler still answers 200 to a recognized event.                   *)
C10_StoreErrorsSwallowed ==
    (/\ last.op = "http"
     /\ last.resp \notin {400, 500}
     /\ SomeCallFailed(last.calls))
        => /\ last.exc = "none"
           /\ last.resp = 200
           /\ WriteFailed(last.calls) => table = last.before

(* C11. Notifier failures do not affect the counter: after each operation *)
(* of a run, the table (and so the stored counter) and the exception the   *)
(* operation ended with are the same as in a second run of the same        *)
(* operations with the same store outcomes in which every publish call    *)
(* succeeds; a failed publish is never raised by handle_event.             *)
C11_PublishOutcomeIrrelevant ==
    /\ twin.table = table
    /\ twin.exc = last.exc
    /\ last.exc # "ClientError"

C11_Witness ==
    /\ twin.differed
    /\ Published(last.calls)
    /\ last.event = "open"
    /\ last.exc = "none"
    /\ HasRecord(table)
    /\ StoredCounter(table) = StoredCounter(last.before) + 1

CallsTo(calls, name) == {i \in 1..Len(calls) : calls[i][1] = name}

(* C12. Both variants: handle_event with an event value other than "open"  *)
(* or "closed" leaves the stored counter, the machine state and            *)
(* ajar_message_count unchanged, makes no store write and sends no         *)
(* notification.                                                           *)
C12_UnrecognizedEventIsNoOp ==
    (last.entered /\ last.event \notin Events)
        => /\ table = last.before
           /\ state = last.from
           /\ amc = last.amcFrom
           /\ CallsTo(last.calls, "update_item") = {}
           /\ CallsTo(last.calls, "publish") = {}
           /\ last.sent = <<>>
           /\ last.exc = "none"

C12_Witness ==
    /\ variant = "root"
    /\ last.op = "handle_event"
    /\ last.event \in OtherEvents
    /\ state = "AJAR"
    /\ amc = 1
    /\ StoredCounter(table) >= 4

\* the request names an event; a configuration value is unset or empty
Recognized(path) == Contains(Chars_open, path) \/ Contains(Chars_closed, path)

ConfigMissing(env) ==
    \E name \in {"MAILBOX_SNS_ARN", "MAILBOX_DYNAMODB_TABLE"} :
        name \notin DOMAIN env \/ env[name] = ""

(* C13. HTTP handler: a path containing neither "open" nor "closed" is     *)
(* answered 400, a recognized path with a configuration value missing is   *)
(* answered 500; in both cases handle_event is not called, no boto3 call   *)
(* is made, the table is unchanged and nothing is published. Status 200    *)
(* is returned, and an event handled, only for a recognized path with both *)
(* values set: then exactly one event, the one the path names, is handled  *)
(* (and when the table holds the item the answer is 200).                  *)
C13_HttpInputErrors ==
    (last.op = "http")
        => /\ ~Recognized(last.path) => last.resp = 400
           /\ (Recognized(last.path) /\ ConfigMissing(last.env))
                  => last.resp = 500
           /\ last.resp \in {400, 500}
                  => /\ ~last.entered
                     /\ last.calls = <<>>
                     /\ table = last.before
                     /\ last.sent = <<>>
                     /\ last.exc = "none"
           /\ (last.entered \/ last.resp = 200)
                  => /\ Recognized(last.path)
                     /\ ~ConfigMissing(last.env)
                     /\ last.event = IF Contains(Chars_open, last.path)
                                     THEN "open" ELSE "closed"
                     /\ hist # <<>>
                     /\ hist[Len(hist)] = last.event
                     /\ Cardinality(CallsTo(last.calls, "update_item")) <= 1
           /\ last.resp = 200 => last.entered
           /\ (Recognized(last.path) /\ ~ConfigMissing(last.env)
                   /\ HasRecord(last.before))
                  => last.resp = 200

C13_Witness ==
    /\ last.op = "http"
    /\ last.resp = 500
    /\ "MAILBOX_SNS_ARN" \in DOMAIN last.env
    /\ last.env["MAILBOX_SNS_ARN"] = ""
    /\ Contains(Chars_closed, last.path)
    /\ StoredCounter(table) >= 2
    /\ log # <<>>

\* the derivation rule: CLOSED at 0, OPEN at 1, AJAR above
Derived(c) ==
    CASE c = 0 -> "CLOSED"
      [] c = 1 -> "OPEN"
      [] c > 1 -> "AJAR"

(* C14. Lambda variant: the state of a newly constructed state machine is  *)
(* determined by the counter c stored at construction time: CLOSED if      *)
(* c = 0, OPEN if c = 1, AJAR if c > 1.                                    *)
C14_StateDerivedAtConstruction ==
    (variant = "lambda" /\ HasRecord(last.before))
        => /\ (last.op = "__init__" /\ last.exc = "none")
                  => state = Derived(StoredCounter(last.before))
           /\ (last.op \in {"fresh", "http"} /\ last.entered)
                  => last.from = Derived(StoredCounter(last.before))

C14_Witness ==
    /\ variant = "lambda"
    /\ last.op = "__init__"
    /\ last.exc = "none"
    /\ StoredCounter(last.before) = 2
    /\ state = "AJAR"

(* C15. Root variant, one long-lived instance: ajar_message_count is back *)
(* at its initial value 0 after every "closed" event.                      *)
C15_AjarProgressResetOnClosed ==
    (/\ variant = "root"
     /\ mode = "long"
     /\ last.op = "handle_event"
     /\ last.event = "closed")
        => amc = 0

\* every boto3 call succeeds
NoFailure == [k \in OutcomeFields |-> OK]

\* the events h handled one after the other, each by a newly constructed
\* instance of the lambda class, starting from context c
RECURSIVE FreshRun(_, _)
FreshRun(c, h) ==
    IF h = <<>> THEN c
    ELSE FreshRun(fresh_event("lambda", c.table, c.log, Head(h), NoFailure).c,
                  Tail(h))

(* C16. Lambda variant, sequential events, no failures: after each event   *)
(* of a run with one long-lived instance, the notifications sent so far,   *)
(* the stored counter and the machine state are those of the run that      *)
(* handles the same events from the same initial counter with a fresh      *)
(* instance per event.                                                     *)
C16_FreshEqualsLongLived ==
    (variant = "lambda" /\ mode = "long" /\ status # "finished" /\ hist # <<>>)
        => LET f == FreshRun(Ctx(table0, "none", 0, <<>>), hist)
           IN /\ f.exc = "none"
              /\ f.log = log
              /\ f.table = table
              /\ f.state = state

C16_Witness ==
    /\ variant = "lambda"
    /\ mode = "long"
    /\ Len(hist) >= 6
    /\ \E i \in 1..Len(hist) : hist[i] = "closed"
    /\ \E i \in 1..Len(log) : log[i].msg = Lambda_MsgStillAjar(4)
    /\ log[Len(log)].msg = Lambda_MsgAjar
    /\ state = "AJAR"

(* C17. Root variant with a fresh instance per event: every "open" is     *)
(* processed as CLOSED -> OPEN and sends "Mailbox is now OPEN" whatever    *)
(* the stored counter is, which it increments by one; the AJAR state is    *)
(* never reached and no AJAR or "still AJAR" notification is ever sent.    *)
C17_RootFreshNeverAjar ==
    (variant = "root" /\ mode = "fresh")
        => /\ state # "AJAR"
           /\ \A i \in 1..Len(log) :
                  /\ log[i].msg # Root_MsgAjar
                  /\ log[i].msg[1] # Root_MsgStillAjar(0)[1]
           /\ (last.op = "fresh" /\ last.event = "open")
                  => /\ last.from = "CLOSED"
                     /\ state = "OPEN"
                     /\ Texts(last.sent) = <<Root_MsgOpen>>
                     /\ HasRecord(table)
                     /\ StoredCounter(table) =
                            IF HasRecord(last.before)
                            THEN StoredCounter(last.before) + 1 ELSE 1

C17_Witness ==
    /\ variant = "root"
    /\ mode = "fresh"
    /\ last.op = "fresh"
    /\ last.event = "open"
    /\ StoredCounter(last.before) >= 4
    /\ Len(log) >= 5
    /\ state = "OPEN"

(* C18. Root variant: a "closed" event handled while the stored counter   *)
(* is greater than 0 sends "Mailbox is now CLOSED": the notification is    *)
(* decided on the counter's value before the reset.                        *)
C18_RootClosedNotifies ==
    (/\ variant = "root"
     /\ last.entered
     /\ last.event = "closed"
     /\ HasRecord(last.before)
     /\ StoredCounter(last.before) > 0)
        => Texts(last.sent) = <<Root_MsgClosed>>

(* C19. Lambda variant, as the test driver expects: a "closed" event     *)
(* handled when the stored counter is 0 or 1 sends no notification, so the *)
(* events "open", "closed" from counter 0 give the OPEN message and no     *)
(* CLOSED message; a "closed" handled when the counter is 2 or more sends  *)
(* "Mailbox CLOSED".                                                       *)
C19_LambdaClosedThreshold ==
    (variant = "lambda")
        => /\ (last.entered /\ last.event = "closed")
                  => /\ StoredCounter(last.before) \in {0, 1}
                            => last.sent = <<>>
                     /\ StoredCounter(last.before) >= 2
                            => Texts(last.sent) = <<Lambda_MsgClosed>>
           /\ (StoredCounter(table0) = 0 /\ hist = <<"open", "closed">>)
                  => Texts(log) = <<Lambda_MsgOpen>>

C19_Witness ==
    /\ variant = "lambda"
    /\ last.entered
    /\ last.event = "closed"
    /\ StoredCounter(last.before) = 1
    /\ hist = <<"open", "closed">>
    /\ Texts(log) = <<Lambda_MsgOpen>>

\* every publish call of the sequence comes after a store write, and no
\* store write comes after a publish call
WriteBeforeAnyPublish(calls) ==
    \A i \in CallsTo(calls, "publish") :
        /\ \E j \in CallsTo(calls, "update_item") : j < i
        /\ \A j \in CallsTo(calls, "update_item") : j < i

(* C20, as stated. Within the handling of any single event, the store      *)
(* write (increment or reset) happens before any notifier call.            *)
C20_WriteBeforePublish ==
    (last.entered /\ last.event \in Events)
        => WriteBeforeAnyPublish(last.calls)

(* C20, amended. Within the handling of an "open" event, in both variants, *)
(* and of a "closed" event in the root variant, the one store write        *)
(* happens before any notifier call. In the lambda variant a "closed"      *)
(* event reads the counter, publishes "Mailbox CLOSED" if the counter is   *)
(* above 1, and only then makes its store write, the reset.                *)
C20_WriteOrder ==
    (last.entered /\ last.event \in Events)
        => /\ Cardinality(CallsTo(last.calls, "update_item")) = 1
           /\ IF variant = "lambda" /\ last.event = "closed"
              THEN /\ \A i \in CallsTo(last.calls, "publish"),
                         j \in CallsTo(last.calls, "update_item") : i < j
                   /\ StoredCounter(last.before) > 1
                          => CallsTo(last.calls, "publish") # {}
              ELSE WriteBeforeAnyPublish(last.calls)

C20_Witness ==
    /\ variant = "lambda"
    /\ last.op = "handle_event"
    /\ last.event = "closed"
    /\ StoredCounter(last.before) = 4
    /\ last.calls =
           << <<"get_item", OK>>, <<"publish", OK>>, <<"update_item", OK>> >>
    /\ StoredCounter(table) = 0

(* C21. app.handler: a trigger whose "door" value is missing or is        *)
(* neither "open" nor "closed" is reported to the caller as an error and   *)
(* is not processed further: no state machine is constructed and no store  *)
(* call is made.                                                           *)
C21_AppInputErrors ==
    (/\ last.op = "app"
     /\ \/ "door" \notin DOMAIN last.trigger
        \/ last.trigger.door \notin Events)
        => /\ last.exc # "none"
           /\ ~last.entered
           /\ last.calls = <<>>
           /\ table = last.before

(* C22. One long-lived instance, no store failures, no concurrent         *)
(* invocations, started on counter 0 (either variant) or constructed on    *)
(* any counter (lambda variant): after every completed event the in-memory *)
(* state is the derivation of the stored counter, CLOSED at 0, OPEN at 1,  *)
(* AJAR above 1.                                                           *)
C22_StateMatchesCounter ==
    (/\ mode = "long"
     /\ status = "ready"
     /\ last.op = "handle_event"
     /\ HasRecord(table0)
     /\ variant = "lambda" \/ StoredCounter(table0) = 0)
        => /\ HasRecord(table)
           /\ state = Derived(StoredCounter(table))

C22_Witness ==
    /\ variant = "root"
    /\ mode = "long"
    /\ table0 = {InitialItem(0)}
    /\ hist = <<"open", "open", "closed", "open", "open", "open">>
    /\ last.op = "handle_event"
    /\ StoredCounter(table) = 3
    /\ state = "AJAR"

\* the sequences a and b hold the same messages the same number of times
SameMessages(a, b) ==
    \A x \in {a[i] : i \in 1..Len(a)} \cup {b[i] : i \in 1..Len(b)} :
        Cardinality({i \in 1..Len(a) : a[i] = x})
            = Cardinality({i \in 1..Len(b) : b[i] = x})

\* the two events handled one after the other, invocation p first, each by
\* a fresh instance of the lambda class
SerialRun(p, q) ==
    FreshRun(Ctx(table0, "none", 0, <<>>), <<inv[p].event, inv[q].event>>)

(* C23. Lambda variant, two concurrent invocations with a fresh instance   *)
(* each, their store and notifier calls interleaved arbitrarily: once both *)
(* have returned, the notifications emitted and the stored counter are     *)
(* those of one of the two serial orders of the two events.                *)
C23_ConcurrentAsSerial ==
    (/\ variant = "lambda"
     /\ HasRecord(table0)
     /\ \A p \in Procs : inv[p].pc = "done")
        => \E p \in Procs, q \in Procs :
               /\ p # q
               /\ StoredCounter(SerialRun(p, q).table) = StoredCounter(table)
               /\ SameMessages(Texts(SerialRun(p, q).log), Texts(log))

(* C24. Both variants: handling one event makes at most one store write  *)
(* and publishes at most one notification, whatever the state, the stored  *)
(* counter and the event.                                                  *)
C24_OneWriteOnePublish ==
    last.entered
        => /\ Cardinality(CallsTo(last.calls, "update_item")) <= 1
           /\ Cardinality(CallsTo(last.calls, "publish")) <= 1
           /\ Len(last.sent) <= 1

C24_Witness ==
    /\ variant = "root"
    /\ last.op = "handle_event"
    /\ last.event = "open"
    /\ last.from = "AJAR"
    /\ StoredCounter(table) = 4
    /\ Cardinality(CallsTo(last.calls, "update_item")) = 1
    /\ Cardinality(CallsTo(last.calls, "publish")) = 1
    /\ Len(last.sent) = 1

====
